---- MODULE Spec2Model ----
(***************************************************************************)
(* Model of kanka_converter.py: the two-pass conversion of a Kanka export  *)
(* (pass 1 create_id_map, pass 2 generate_text_files with format_entity    *)
(* and resolve_mentions, then the flush of the per-type output buffers).   *)
(*                                                                         *)
(* A Python str is a sequence of one-character strings.  A decoded JSON    *)
(* value is a tagged record [t |-> <python type>, v |-> <payload>]; a str  *)
(* that holds markup is tagged "html" and carries its parse tree.  A call  *)
(* that may raise returns [exc |-> <exception or "none">, val |-> _].      *)
(***************************************************************************)
EXTENDS Integers, Sequences, FiniteSets, TLC

VARIABLES
    \* --- main(): the run of the converter ---
    disk,            \* the files os.walk yields, in traversal order
    pc,              \* position of main: pass1, pass2, flush, done, aborted
    i,               \* number of files the current pass has visited
    id_map,          \* the Identity Index
    returned_id_map, \* main's local id_map: the value create_id_map returned
    reported_count,  \* the count printed by "Indexing complete"
    output_buffers,  \* generate_text_files: folder -> list of resolved records
    k,               \* number of buffers the flush loop has visited
    written,         \* output directory: file name -> content
    warnings,        \* indices of files a "Warning:" line was printed for
    raised,          \* the exception that ended main, or "none"
    formatted,       \* indices of files format_entity was called for in pass 2
    \* --- resolve_mentions applied to a text, and to its own output ---
    pieces, text, index, out1, out2, rphase,
    \* --- format_entity applied to one record ---
    froot, fdata, fid_map, content, fphase

vars == <<disk, pc, i, id_map, returned_id_map, reported_count, output_buffers,
          k, written, warnings, raised, formatted,
          pieces, text, index, out1, out2, rphase,
          froot, fdata, fid_map, content, fphase>>

mainVars == <<disk, pc, i, id_map, returned_id_map, reported_count,
              output_buffers, k, written, warnings, raised, formatted>>
resolveVars == <<pieces, text, index, out1, out2, rphase>>
formatVars == <<froot, fdata, fid_map, content, fphase>>

--------------------------------------------------------------------------
(* Python str primitives *)

LowerCase == <<"a","b","c","d","e","f","g","h","i","j","k","l","m",
               "n","o","p","q","r","s","t","u","v","w","x","y","z">>
UpperCase == <<"A","B","C","D","E","F","G","H","I","J","K","L","M",
               "N","O","P","Q","R","S","T","U","V","W","X","Y","Z">>
DigitChars == <<"0","1","2","3","4","5","6","7","8","9">>

Range(s) == {s[n] : n \in DOMAIN s}

\* [a-zA-Z]
IsLetter(c) == c \in Range(LowerCase) \cup Range(UpperCase)
\* \d
IsDigit(c) == c \in Range(DigitChars)
\* str.isspace, for the characters the model's texts contain
IsSpace(c) == c \in {" ", "\n", "\t"}

PosIn(c, s) == CHOOSE n \in DOMAIN s : s[n] = c

upper_char(c) == IF c \in Range(LowerCase) THEN UpperCase[PosIn(c, LowerCase)] ELSE c
lower_char(c) == IF c \in Range(UpperCase) THEN LowerCase[PosIn(c, UpperCase)] ELSE c

\* str.upper()
upper(s) == [n \in DOMAIN s |-> upper_char(s[n])]
\* str.lower()
lower(s) == [n \in DOMAIN s |-> lower_char(s[n])]
\* str.capitalize(): first character upper-cased, the rest lower-cased
capitalize(s) == [n \in DOMAIN s |-> IF n = 1 THEN upper_char(s[n]) ELSE lower_char(s[n])]
\* s[:-1]
drop_last(s) == SubSeq(s, 1, Len(s) - 1)
\* str.endswith
endswith(s, suffix) ==
    /\ Len(s) >= Len(suffix)
    /\ SubSeq(s, Len(s) - Len(suffix) + 1, Len(s)) = suffix

RECURSIVE lstrip(_)
lstrip(s) == IF s # <<>> /\ IsSpace(Head(s)) THEN lstrip(Tail(s)) ELSE s
RECURSIVE rstrip(_)
rstrip(s) == IF s # <<>> /\ IsSpace(s[Len(s)]) THEN rstrip(drop_last(s)) ELSE s
\* str.strip()
strip(s) == rstrip(lstrip(s))

\* sep.join(parts)
RECURSIVE join(_, _)
join(sep, parts) ==
    IF parts = <<>> THEN <<>>
    ELSE IF Len(parts) = 1 THEN parts[1]
    ELSE parts[1] \o sep \o join(sep, Tail(parts))

\* "".join(parts)
RECURSIVE concat(_)
concat(parts) == IF parts = <<>> THEN <<>> ELSE Head(parts) \o concat(Tail(parts))

\* str(n) for an int
RECURSIVE nat_str(_)
nat_str(n) == IF n < 10 THEN <<DigitChars[n + 1]>>
              ELSE nat_str(n \div 10) \o <<DigitChars[(n % 10) + 1]>>
int_str(n) == IF n < 0 THEN <<"-">> \o nat_str(0 - n) ELSE nat_str(n)

\* int(s) for a string of decimal digits
RECURSIVE int_of(_)
int_of(s) == IF s = <<>> THEN 0
             ELSE 10 * int_of(drop_last(s)) + (PosIn(s[Len(s)], DigitChars) - 1)

--------------------------------------------------------------------------
(* Decoded JSON values and the Python operations the converter applies *)

JStr(s) == [t |-> "str", v |-> s]
JInt(n) == [t |-> "int", v |-> n]
JBool(b) == [t |-> "bool", v |-> b]
JList(l) == [t |-> "list", v |-> l]
JDict(d) == [t |-> "dict", v |-> d]
JNone == [t |-> "NoneType", v |-> 0]
EmptyDict == JDict([x \in {} |-> JNone])

Ok(x) == [exc |-> "none", val |-> x]
Raise(e) == [exc |-> e, val |-> 0]

\* the first exception of a sequence of evaluation steps, in program order
RECURSIVE first_exc(_)
first_exc(steps) ==
    IF steps = <<>> THEN "none"
    ELSE IF Head(steps) # "none" THEN Head(steps)
    ELSE first_exc(Tail(steps))

\* bool(x)
truthy(j) ==
    CASE j.t = "str" -> j.v # <<>>
      [] j.t = "html" -> j.v # <<>>
      [] j.t = "int" -> j.v # 0
      [] j.t = "bool" -> j.v
      [] j.t = "list" -> j.v # <<>>
      [] j.t = "dict" -> DOMAIN j.v # {}
      [] j.t = "NoneType" -> FALSE

\* f"{x}" / str(x), for the scalar values
py_str(j) ==
    CASE j.t = "str" -> j.v
      [] j.t = "int" -> int_str(j.v)
      [] j.t = "bool" -> IF j.v THEN <<"T","r","u","e">> ELSE <<"F","a","l","s","e">>
      [] j.t = "NoneType" -> <<"N","o","n","e">>

\* x.get(key, default): AttributeError unless x is a dict
get_exc(j) == IF j.t = "dict" THEN "none" ELSE "AttributeError"
get(j, key, default) == IF key \in DOMAIN j.v THEN j.v[key] ELSE default
\* x.get(key): the default is None
get1(j, key) == get(j, key, JNone)

\* x[key] for a string key: KeyError on a dict without it, TypeError on
\* a value that is not subscriptable by a string
item_exc(j, key) ==
    IF j.t = "dict" THEN (IF key \in DOMAIN j.v THEN "none" ELSE "KeyError")
    ELSE "TypeError"
item(j, key) == j.v[key]

\* x[0]: first element of a list or first character of a string
first_exc_of(j) ==
    CASE j.t = "list" -> IF j.v = <<>> THEN "IndexError" ELSE "none"
      [] j.t = "str" -> IF j.v = <<>> THEN "IndexError" ELSE "none"
      [] j.t = "dict" -> "KeyError"
      [] OTHER -> "TypeError"
first_of(j) == IF j.t = "str" THEN JStr(<<j.v[1]>>) ELSE j.v[1]

\* for x in seq: the elements a loop visits (a string yields its characters)
iter_exc(j) == IF j.t \in {"list", "str"} THEN "none" ELSE "TypeError"
iter(j) == IF j.t = "str" THEN [n \in DOMAIN j.v |-> JStr(<<j.v[n]>>)] ELSE j.v

--------------------------------------------------------------------------
(* resolve_mentions *)

\* the least element of a non-empty set of positions
least(S) == CHOOSE m \in S : \A n \in S : m <= n

\* index of the last character of the maximal run of letters ([a-zA-Z]+),
\* digits (\d+) or non-brackets ([^\]]*) of s that starts at n
\* (n - 1 when the run is empty)
letters_end(s, n) ==
    LET stops == {m \in n..Len(s) : ~IsLetter(s[m])}
    IN  IF stops = {} THEN Len(s) ELSE least(stops) - 1
digits_end(s, n) ==
    LET stops == {m \in n..Len(s) : ~IsDigit(s[m])}
    IN  IF stops = {} THEN Len(s) ELSE least(stops) - 1
not_bracket_end(s, n) ==
    LET stops == {m \in n..Len(s) : s[m] = "]"}
    IN  IF stops = {} THEN Len(s) ELSE least(stops) - 1

\* pattern = r'\[([a-zA-Z]+):(\d+)(?:\|[^\]]*)?\]' matched at position n:
\* [end |-> index of the closing bracket (0: no match), g1, g2 |-> groups]
pattern_match(s, n) ==
    LET le == letters_end(s, n + 1)
        de == digits_end(s, le + 2)
        oe == not_bracket_end(s, de + 2)
        heads == /\ n <= Len(s) /\ s[n] = "["
                 /\ le >= n + 1
                 /\ le + 1 <= Len(s) /\ s[le + 1] = ":"
                 /\ de >= le + 2
                 /\ de + 1 <= Len(s)
        end == IF ~heads THEN 0
               ELSE IF s[de + 1] = "]" THEN de + 1
               ELSE IF s[de + 1] = "|" /\ oe + 1 <= Len(s) THEN oe + 1
               ELSE 0
    IN  [end |-> end,
         g1 |-> IF end = 0 THEN <<>> ELSE SubSeq(s, n + 1, le),
         g2 |-> IF end = 0 THEN <<>> ELSE SubSeq(s, le + 2, de)]

\* replace_func with the token's tag copied as written (capitalize() left out)
replace_func_raw_tag(m, idmap) ==
    LET entity_id == int_of(m.g2)
    IN  IF entity_id \in DOMAIN idmap
        THEN py_str(idmap[entity_id].name) \o <<" ","(">> \o idmap[entity_id].type \o <<")">>
        ELSE <<"[">> \o m.g1 \o <<" ","N","o","t"," ","F","o","u","n","d",":"," ">> \o int_str(entity_id) \o <<"]">>

replace_func(m, idmap) ==
    LET entity_id == int_of(m.g2)
    IN  IF entity_id \in DOMAIN idmap
        THEN py_str(idmap[entity_id].name) \o <<" ","(">> \o idmap[entity_id].type \o <<")">>
        ELSE <<"[">> \o capitalize(m.g1) \o <<" ","N","o","t"," ","F","o","u","n","d",":"," ">> \o int_str(entity_id) \o <<"]">>

\* re.sub(pattern, replace_func, text, count=1): only the leftmost match
\* is replaced
re_sub_first_only(s, n, idmap) ==
    LET starts == {m \in n..Len(s) : pattern_match(s, m).end # 0}
    IN  IF starts = {} THEN SubSeq(s, n, Len(s))
        ELSE LET m == pattern_match(s, least(starts))
             IN  SubSeq(s, n, least(starts) - 1) \o replace_func(m, idmap)
                 \o SubSeq(s, m.end + 1, Len(s))

\* re.sub(pattern, replace_func, text): the leftmost match at or after n
\* is replaced and the scan goes on behind it
RECURSIVE re_sub(_, _, _)
re_sub(s, n, idmap) ==
    LET starts == {m \in n..Len(s) : pattern_match(s, m).end # 0}
    IN  IF starts = {} THEN SubSeq(s, n, Len(s))
        ELSE LET m == pattern_match(s, least(starts))
             IN  SubSeq(s, n, least(starts) - 1) \o replace_func(m, idmap)
                 \o re_sub(s, m.end + 1, idmap)

resolve_mentions(txt, idmap) ==
    IF txt = <<>> THEN <<>> ELSE re_sub(txt, 1, idmap)

--------------------------------------------------------------------------
(* The seven recognized type folders and their labels *)

characters == <<"c","h","a","r","a","c","t","e","r","s">>
families == <<"f","a","m","i","l","i","e","s">>
locations == <<"l","o","c","a","t","i","o","n","s">>
journals == <<"j","o","u","r","n","a","l","s">>
notes == <<"n","o","t","e","s">>
organisations == <<"o","r","g","a","n","i","s","a","t","i","o","n","s">>
races == <<"r","a","c","e","s">>

\* type_name_map, in the order of the dict literal
type_name_map ==
    << <<characters, <<"C","h","a","r","a","c","t","e","r">>>>, <<families, <<"F","a","m","i","l","y">>>>,
       <<locations, <<"L","o","c","a","t","i","o","n">>>>, <<journals, <<"J","o","u","r","n","a","l">>>>,
       <<notes, <<"N","o","t","e">>>>, <<organisations, <<"O","r","g","a","n","i","s","a","t","i","o","n">>>>,
       <<races, <<"R","a","c","e">>>> >>

TypeFolders == {type_name_map[n][1] : n \in DOMAIN type_name_map}
type_label(folder) ==
    type_name_map[CHOOSE n \in DOMAIN type_name_map : type_name_map[n][1] = folder][2]

EmptyIdMap == [x \in {} |-> 0]
Entry(name, label) == [name |-> JStr(name), type |-> label]

--------------------------------------------------------------------------
(* Inputs of resolve_mentions: a text assembled from mention tokens and    *)
(* literal fragments, and an Identity Index                                *)

MaxPieces == 3

Token(type, digits, bar, rest) ==
    [kind |-> "token", type |-> type, digits |-> digits, bar |-> bar, rest |-> rest]
Literal(s) ==
    [kind |-> "literal", type |-> <<>>, digits |-> <<>>, bar |-> FALSE, rest |-> s]

\* mention tokens: plain, with an override, with leading zeros and a
\* mixed-case tag, and with an override that itself looks like a token start
TokenPieces ==
    { Token(<<"c","h","a","r","a","c","t","e","r">>, <<"1">>, FALSE, <<>>),
      Token(<<"r","a","c","e">>, <<"2">>, TRUE, <<"x"," ","y">>),
      Token(<<"n","P","C">>, <<"0","7">>, FALSE, <<>>),
      Token(<<"b">>, <<"2">>, TRUE, <<"[","a",":","1">>) }

\* literal fragments: none of them, alone or combined, spells a token
LiteralPieces ==
    { Literal(<<"S","e","e"," ">>), Literal(<<"[","a",":">>), Literal(<<"[">>), Literal(<<"]">>),
      Literal(<<"|">>) }

Pieces == TokenPieces \cup LiteralPieces

piece_text(p) ==
    IF p.kind = "literal" THEN p.rest
    ELSE <<"[">> \o p.type \o <<":">> \o p.digits
         \o (IF p.bar THEN <<"|">> \o p.rest ELSE <<>>) \o <<"]">>

pieces_text(ps) == concat([n \in DOMAIN ps |-> piece_text(ps[n])])

CleanIndex ==
    (1 :> Entry(<<"B","o","b">>, <<"C","h","a","r","a","c","t","e","r">>)) @@ (7 :> Entry(<<"[","E","l","f",":"," ","(","x">>, <<"R","a","c","e">>))
BracketIndex ==
    (1 :> Entry(<<"7","]">>, <<"C","h","a","r","a","c","t","e","r">>)) @@ (2 :> Entry(<<"[","r","a","c","e",":","9","]">>, <<"F","a","m","i","l","y">>))
PipeIndex ==
    (1 :> Entry(<<"7","|">>, <<"C","h","a","r","a","c","t","e","r">>))

Indexes == {EmptyIdMap, CleanIndex, BracketIndex, PipeIndex}

MainIdle ==
    /\ disk = <<>> /\ pc = "idle" /\ i = 0 /\ id_map = EmptyIdMap
    /\ returned_id_map = EmptyIdMap /\ reported_count = 0
    /\ output_buffers = <<>> /\ k = 0 /\ written = <<>>
    /\ warnings = {} /\ raised = "none" /\ formatted = {}
ResolveIdle ==
    /\ pieces = <<>> /\ text = <<>> /\ index = EmptyIdMap
    /\ out1 = <<>> /\ out2 = <<>> /\ rphase = "idle"
FormatIdle ==
    /\ froot = <<>> /\ fdata = JNone /\ fid_map = EmptyIdMap
    /\ content = JNone /\ fphase = "idle"

ResolveInit ==
    /\ MainIdle /\ FormatIdle
    /\ pieces \in UNION {[1..n -> Pieces] : n \in 0..MaxPieces}
    /\ text = pieces_text(pieces)
    /\ index \in Indexes
    /\ out1 = <<>> /\ out2 = <<>>
    /\ rphase = "input"

\* resolved = resolve_mentions(text, id_map)
ResolveOnce ==
    /\ rphase = "input"
    /\ out1' = resolve_mentions(text, index)
    /\ rphase' = "once"
    /\ UNCHANGED <<pieces, text, index, out2, mainVars, formatVars>>

\* resolve_mentions applied to its own output
ResolveAgain ==
    /\ rphase = "once"
    /\ out2' = resolve_mentions(out1, index)
    /\ rphase' = "twice"
    /\ UNCHANGED <<pieces, text, index, out1, mainVars, formatVars>>

ResolveNext == ResolveOnce \/ ResolveAgain

SpecResolve == ResolveInit /\ [][ResolveNext]_vars

--------------------------------------------------------------------------
(* clean_html.  BeautifulSoup's parse is a library step: a markup string   *)
(* is [t |-> "html", v |-> <nodes>], the tree html.parser builds from it;  *)
(* a str without markup parses to one text node.  A node is                *)
(* [tag, text, href, kids]; tag "#text" marks a text node.                 *)

TextNode(s) == [tag |-> "#text", text |-> s, href |-> <<>>, kids |-> <<>>]
Element(tag, kids) == [tag |-> tag, text |-> <<>>, href |-> <<>>, kids |-> kids]
Anchor(href, kids) == [tag |-> "a", text |-> <<>>, href |-> href, kids |-> kids]
JHtml(nodes) == [t |-> "html", v |-> nodes]

\* BeautifulSoup(html_content, 'html.parser')
soup_of(j) == IF j.t = "html" THEN j.v ELSE <<TextNode(j.v)>>

\* element.get_text()
RECURSIVE get_text(_)
get_text(node) ==
    IF node.tag = "#text" THEN node.text
    ELSE concat([n \in DOMAIN node.kids |-> get_text(node.kids[n])])

\* sub in s
contains(sub, s) ==
    \E n \in 1..(Len(s) - Len(sub) + 1) : SubSeq(s, n, n + Len(sub) - 1) = sub

\* an instructional link: href on app.kanka.io, text saying "click here"
is_instruction_link(node) ==
    /\ node.tag = "a" /\ node.href # <<>>
    /\ contains(<<"a","p","p",".","k","a","n","k","a",".","i","o">>, node.href)
    /\ contains(<<"c","l","i","c","k"," ","h","e","r","e">>, lower(get_text(node)))

\* node has an instructional link whose nearest enclosing <p> is the caller
RECURSIVE has_instruction_link(_)
has_instruction_link(node) ==
    \E n \in DOMAIN node.kids :
        \/ is_instruction_link(node.kids[n])
        \/ (node.kids[n].tag # "p" /\ has_instruction_link(node.kids[n]))

\* the tree after p.decompose() of every <p> around an instructional link
RECURSIVE decompose_links(_)
decompose_links(nodes) ==
    IF nodes = <<>> THEN <<>>
    ELSE LET h == Head(nodes)
         IN  IF h.tag = "p" /\ has_instruction_link(h)
             THEN decompose_links(Tail(nodes))
             ELSE <<[h EXCEPT !.kids = decompose_links(h.kids)]>>
                  \o decompose_links(Tail(nodes))

\* soup.find_all(tags): the elements with one of the tags, in document order
RECURSIVE find_all(_, _)
find_all(nodes, tags) ==
    IF nodes = <<>> THEN <<>>
    ELSE LET h == Head(nodes)
         IN  (IF h.tag \in tags THEN <<h>> ELSE <<>>)
             \o find_all(h.kids, tags) \o find_all(Tail(nodes), tags)

\* s.split('\n')
RECURSIVE split_lines(_)
split_lines(s) ==
    IF \A n \in DOMAIN s : s[n] # "\n" THEN <<s>>
    ELSE LET p == CHOOSE n \in DOMAIN s : s[n] = "\n" /\ \A m \in 1..(n - 1) : s[m] # "\n"
         IN  <<SubSeq(s, 1, p - 1)>> \o split_lines(SubSeq(s, p + 1, Len(s)))

\* the text_parts one element contributes, concatenated
element_text(element) ==
    CASE element.tag = "p" -> strip(get_text(element)) \o <<"\n">>
      [] element.tag = "ul" ->
            LET lis == find_all(element.kids, {"li"})
            IN  concat([n \in DOMAIN lis |->
                          <<"-"," ">> \o strip(get_text(lis[n])) \o <<"\n">>]) \o <<"\n">>
      [] element.tag \in {"h3", "h4", "b", "strong"} ->
            strip(get_text(element)) \o <<"\n">>
      [] element.tag \in {"i", "em"} ->
            LET ls == split_lines(get_text(element))
            IN  join(<<"\n">>, [n \in DOMAIN ls |-> <<">"," ">> \o strip(ls[n])]) \o <<"\n">>

clean_html(html_content) ==
    IF ~truthy(html_content) THEN <<>>
    ELSE LET soup == decompose_links(soup_of(html_content))
             found == find_all(soup, {"p", "ul", "h3", "h4", "b", "strong", "i", "em"})
         IN  IF found = <<>>
             THEN concat([n \in DOMAIN soup |-> get_text(soup[n])])
             ELSE strip(concat([n \in DOMAIN found |-> element_text(found[n])]))

--------------------------------------------------------------------------
(* The formatters.  Each returns Ok(text) or Raise(exception); <x>_exc is  *)
(* the first exception the body raises, in statement order.                *)

\* id_map.get(key): TypeError on an unhashable key
lookup_exc(j) == IF j.t \in {"list", "dict"} THEN "TypeError" ELSE "none"
in_id_map(idmap, j) == j.t = "int" /\ j.v \in DOMAIN idmap
\* f"{info['name'] if info else fallback}"
name_or(idmap, j, fallback) ==
    IF in_id_map(idmap, j) THEN py_str(idmap[j.v].name) ELSE fallback

entity_of(data) == get(data, "entity", EmptyDict)

\* if data.get(key): parts.append(f"{label}{data.get(key)}")
optional_field(data, key, label) ==
    IF truthy(get1(data, key)) THEN <<label \o py_str(get1(data, key))>> ELSE <<>>

\* if data.get('entity', {}).get('type'): parts.append(f"Type: {data['entity']['type']}")
entity_type_exc(data) == get_exc(entity_of(data))
entity_type_field(data) == optional_field(entity_of(data), "type", <<"T","y","p","e",":"," ">>)

\* data[list_key][0][id_key], guarded by "if data.get(list_key)"
first_link_exc(data, list_key, id_key) ==
    IF ~truthy(get1(data, list_key)) THEN "none"
    ELSE first_exc(<<first_exc_of(get1(data, list_key)),
                     IF first_exc_of(get1(data, list_key)) = "none"
                     THEN item_exc(first_of(get1(data, list_key)), id_key)
                     ELSE "none",
                     IF first_exc_of(get1(data, list_key)) = "none"
                        /\ item_exc(first_of(get1(data, list_key)), id_key) = "none"
                     THEN lookup_exc(item(first_of(get1(data, list_key)), id_key))
                     ELSE "none">>)
first_link(data, list_key, id_key) == item(first_of(get1(data, list_key)), id_key)

\* the loop over data['entity']['posts']
posts_of(data) == get1(entity_of(data), "posts")
posts_exc(data) ==
    IF get_exc(entity_of(data)) # "none" THEN get_exc(entity_of(data))
    ELSE IF ~truthy(posts_of(data)) THEN "none"
    ELSE IF iter_exc(posts_of(data)) # "none" THEN iter_exc(posts_of(data))
    ELSE first_exc([n \in DOMAIN iter(posts_of(data)) |->
                        get_exc(iter(posts_of(data))[n])])
posts_parts(data, label) ==
    IF ~truthy(posts_of(data)) THEN <<>>
    ELSE LET ps == iter(posts_of(data))
         IN  concat([n \in DOMAIN ps |->
                 << <<"\n","-","-","-","\n","[">> \o label \o <<":"," ">> \o py_str(get1(ps[n], "name")) \o <<"]","\n">>,
                    clean_html(get1(ps[n], "entry")) >>])

format_character_exc(data) ==
    first_exc(<<first_link_exc(data, "character_races", "race_id"),
                first_link_exc(data, "character_families", "family_id"),
                posts_exc(data)>>)
format_character(data, idmap) ==
    IF format_character_exc(data) # "none" THEN Raise(format_character_exc(data))
    ELSE Ok(join(<<"\n">>,
        << <<"[","B","a","s","i","c"," ","I","n","f","o","r","m","a","t","i","o","n","]">>,
           <<"N","a","m","e",":"," ">> \o py_str(get(data, "name", JStr(<<"N","/","A">>))) >>
        \o optional_field(data, "title", <<"T","i","t","l","e",":"," ">>)
        \o optional_field(data, "type", <<"T","y","p","e",":"," ">>)
        \o optional_field(data, "sex", <<"S","e","x",":"," ">>)
        \o (IF truthy(get1(data, "character_races"))
            THEN << <<"R","a","c","e",":"," ">> \o name_or(idmap,
                        first_link(data, "character_races", "race_id"), <<"U","n","k","n","o","w","n">>) >>
            ELSE <<>>)
        \o (IF truthy(get1(data, "character_families"))
            THEN << <<"F","a","m","i","l","y",":"," ">> \o name_or(idmap,
                        first_link(data, "character_families", "family_id"), <<"U","n","k","n","o","w","n">>) >>
            ELSE <<>>)
        \o << <<"\n","-","-","-","\n","[","P","r","i","m","a","r","y"," ","D","e","s","c","r","i","p","t","i","o","n","]","\n">>, clean_html(get1(data, "entry")) >>
        \o posts_parts(data, <<"N","o","t","e","s">>)))

\* for member in data['pivotMembers']: the line of each member
pivot_members_exc(data) ==
    IF ~truthy(get1(data, "pivotMembers")) THEN "none"
    ELSE IF iter_exc(get1(data, "pivotMembers")) # "none"
         THEN iter_exc(get1(data, "pivotMembers"))
    ELSE LET ms == iter(get1(data, "pivotMembers"))
         IN  first_exc(concat([n \in DOMAIN ms |->
                 << item_exc(ms[n], "character_id"),
                    IF item_exc(ms[n], "character_id") = "none"
                    THEN lookup_exc(item(ms[n], "character_id")) ELSE "none" >>]))
\* the roster line with the label of the index entry, as the
\* organisation roster renders it
family_member_line_index_label(member, idmap) ==
    LET char_id == item(member, "character_id")
    IN  IF in_id_map(idmap, char_id)
        THEN <<"-"," ">> \o py_str(idmap[char_id.v].name)
             \o <<" ","(">> \o idmap[char_id.v].type \o <<")">>
        ELSE <<"-"," ","[","C","h","a","r","a","c","t","e","r"," ","N","o","t"," ","F","o","u","n","d",":"," ">> \o py_str(char_id) \o <<"]">>
family_member_line(member, idmap) ==
    LET char_id == item(member, "character_id")
    IN  IF in_id_map(idmap, char_id)
        THEN <<"-"," ">> \o py_str(idmap[char_id.v].name) \o <<" ","(","C","h","a","r","a","c","t","e","r",")">>
        ELSE <<"-"," ","[","C","h","a","r","a","c","t","e","r"," ","N","o","t"," ","F","o","u","n","d",":"," ">> \o py_str(char_id) \o <<"]">>
pivot_members_parts(data, idmap) ==
    IF ~truthy(get1(data, "pivotMembers")) THEN <<>>
    ELSE LET ms == iter(get1(data, "pivotMembers"))
         IN  << <<"\n","[","M","e","m","b","e","r","s","]">> >>
             \o [n \in DOMAIN ms |-> family_member_line(ms[n], idmap)]

format_family_exc(data) ==
    first_exc(<<entity_type_exc(data), pivot_members_exc(data), posts_exc(data)>>)
format_family(data, idmap) ==
    IF format_family_exc(data) # "none" THEN Raise(format_family_exc(data))
    ELSE Ok(join(<<"\n">>,
        << <<"[","B","a","s","i","c"," ","I","n","f","o","r","m","a","t","i","o","n","]">>,
           <<"N","a","m","e",":"," ">> \o py_str(get(data, "name", JStr(<<"N","/","A">>))) >>
        \o entity_type_field(data)
        \o pivot_members_parts(data, idmap)
        \o << <<"\n","-","-","-","\n","[","P","r","i","m","a","r","y"," ","D","e","s","c","r","i","p","t","i","o","n","]","\n">>,
              clean_html(get1(entity_of(data), "entry")) >>
        \o posts_parts(data, <<"N","o","t","e","s">>)))

format_journal_exc(data) == first_exc(<<entity_type_exc(data), posts_exc(data)>>)
format_journal(data) ==
    IF format_journal_exc(data) # "none" THEN Raise(format_journal_exc(data))
    ELSE Ok(join(<<"\n">>,
        << <<"[","B","a","s","i","c"," ","I","n","f","o","r","m","a","t","i","o","n","]">>,
           <<"T","i","t","l","e",":"," ">> \o py_str(get(data, "name", JStr(<<"N","/","A">>))) >>
        \o entity_type_field(data)
        \o optional_field(data, "date", <<"D","a","t","e",":"," ">>)
        \o << <<"\n","-","-","-","\n","[","P","r","i","m","a","r","y"," ","D","e","s","c","r","i","p","t","i","o","n","]","\n">>,
              clean_html(get1(entity_of(data), "entry")) >>
        \o posts_parts(data, <<"E","n","t","r","y">>)))

format_location_exc(data) == first_exc(<<entity_type_exc(data), posts_exc(data)>>)
format_location(data) ==
    IF format_location_exc(data) # "none" THEN Raise(format_location_exc(data))
    ELSE Ok(join(<<"\n">>,
        << <<"[","B","a","s","i","c"," ","I","n","f","o","r","m","a","t","i","o","n","]">>,
           <<"N","a","m","e",":"," ">> \o py_str(get(data, "name", JStr(<<"N","/","A">>))) >>
        \o entity_type_field(data)
        \o << <<"S","t","a","t","u","s",":"," ">> \o (IF truthy(get1(data, "is_destroyed"))
                               THEN <<"D","e","s","t","r","o","y","e","d">> ELSE <<"I","n","t","a","c","t">>) >>
        \o << <<"\n","-","-","-","\n","[","P","r","i","m","a","r","y"," ","D","e","s","c","r","i","p","t","i","o","n","]","\n">>,
              clean_html(get1(entity_of(data), "entry")) >>
        \o posts_parts(data, <<"N","o","t","e","s">>)))

format_note_exc(data) == get_exc(entity_of(data))
format_note(data) ==
    IF format_note_exc(data) # "none" THEN Raise(format_note_exc(data))
    ELSE Ok(join(<<"\n">>,
        << <<"[","P","r","i","m","a","r","y"," ","C","o","n","t","e","n","t","]","\n">>,
           clean_html(get(entity_of(data), "entry", JStr(<<>>))) >>))

\* for member in data['members']: role, then character_id
members_exc(data) ==
    IF ~truthy(get1(data, "members")) THEN "none"
    ELSE IF iter_exc(get1(data, "members")) # "none" THEN iter_exc(get1(data, "members"))
    ELSE LET ms == iter(get1(data, "members"))
         IN  first_exc(concat([n \in DOMAIN ms |->
                 << get_exc(ms[n]),
                    IF get_exc(ms[n]) = "none"
                    THEN item_exc(ms[n], "character_id") ELSE "none",
                    IF get_exc(ms[n]) = "none" /\ item_exc(ms[n], "character_id") = "none"
                    THEN lookup_exc(item(ms[n], "character_id")) ELSE "none" >>]))
organisation_member_parts(member, idmap) ==
    LET role == get(member, "role", JStr(<<"M","e","m","b","e","r">>))
        char_id == item(member, "character_id")
    IN  << <<"\n","-"," ","R","o","l","e",":"," ">> \o py_str(role),
           IF in_id_map(idmap, char_id)
           THEN <<" "," ","-"," ","M","e","m","b","e","r",":"," ">> \o py_str(idmap[char_id.v].name)
                \o <<" ","(">> \o idmap[char_id.v].type \o <<")">>
           ELSE <<" "," ","-"," ","M","e","m","b","e","r",":"," ","[","C","h","a","r","a","c","t","e","r"," ","N","o","t"," ","F","o","u","n","d",":"," ">> \o py_str(char_id) \o <<"]">> >>
members_parts(data, idmap) ==
    IF ~truthy(get1(data, "members")) THEN <<>>
    ELSE LET ms == iter(get1(data, "members"))
         IN  << <<"\n","-","-","-","\n","[","M","e","m","b","e","r","s"," ","R","o","s","t","e","r","]">> >>
             \o concat([n \in DOMAIN ms |-> organisation_member_parts(ms[n], idmap)])

format_organisation_exc(data) ==
    first_exc(<<entity_type_exc(data),
                first_link_exc(data, "pivotLocations", "location_id"),
                members_exc(data)>>)
format_organisation(data, idmap) ==
    IF format_organisation_exc(data) # "none" THEN Raise(format_organisation_exc(data))
    ELSE Ok(join(<<"\n">>,
        << <<"[","B","a","s","i","c"," ","I","n","f","o","r","m","a","t","i","o","n","]">>,
           <<"N","a","m","e",":"," ">> \o py_str(get(data, "name", JStr(<<"N","/","A">>))) >>
        \o entity_type_field(data)
        \o << <<"S","t","a","t","u","s",":"," ">> \o (IF truthy(get1(data, "is_defunct"))
                               THEN <<"D","e","f","u","n","c","t">> ELSE <<"A","c","t","i","v","e">>) >>
        \o (IF truthy(get1(data, "pivotLocations"))
               /\ in_id_map(idmap, first_link(data, "pivotLocations", "location_id"))
            THEN LET loc == idmap[first_link(data, "pivotLocations", "location_id").v]
                 IN  << <<"\n","[","L","o","c","a","t","i","o","n","]","\n","B","a","s","e","d"," ","i","n",":"," ">> \o py_str(loc.name)
                        \o <<" ","(">> \o loc.type \o <<")">> >>
            ELSE <<>>)
        \o << <<"\n","-","-","-","\n","[","P","r","i","m","a","r","y"," ","D","e","s","c","r","i","p","t","i","o","n","]","\n">>,
              clean_html(get1(entity_of(data), "entry")) >>
        \o members_parts(data, idmap)))

format_race_exc(data) == entity_type_exc(data)
format_race(data) ==
    IF format_race_exc(data) # "none" THEN Raise(format_race_exc(data))
    ELSE Ok(join(<<"\n">>,
        << <<"[","B","a","s","i","c"," ","I","n","f","o","r","m","a","t","i","o","n","]">>,
           <<"N","a","m","e",":"," ">> \o py_str(get(data, "name", JStr(<<"N","/","A">>))) >>
        \o entity_type_field(data)
        \o << <<"S","t","a","t","u","s",":"," ">> \o (IF truthy(get1(data, "is_extinct"))
                               THEN <<"E","x","t","i","n","c","t">> ELSE <<"E","x","t","a","n","t">>) >>
        \o << <<"\n","-","-","-","\n","[","P","r","i","m","a","r","y"," ","D","e","s","c","r","i","p","t","i","o","n","]","\n">>,
              clean_html(get1(entity_of(data), "entry")) >>))

\* os.path.basename(root)
RECURSIVE basename(_)
basename(path) ==
    IF \A n \in DOMAIN path : path[n] # "/" THEN path
    ELSE basename(Tail(path))

\* header = f"={40}\n {folder_name.upper()[:-1]}: {name}\n={40}\n\n"
header_of(folder_name, name) ==
    [n \in 1..40 |-> "="] \o <<"\n"," ">> \o drop_last(upper(folder_name)) \o <<":"," ">>
    \o py_str(name) \o <<"\n">> \o [n \in 1..40 |-> "="] \o <<"\n","\n">>

\* format_entity: Ok(text), Ok(JNone) for an unknown folder, or Raise(e).
\* data.get('name', 'Unnamed') raises AttributeError unless data is a dict.
body_of(folder_name, data, idmap) ==
    CASE folder_name = characters -> format_character(data, idmap)
      [] folder_name = families -> format_family(data, idmap)
      [] folder_name = journals -> format_journal(data)
      [] folder_name = locations -> format_location(data)
      [] folder_name = notes -> format_note(data)
      [] folder_name = organisations -> format_organisation(data, idmap)
      [] folder_name = races -> format_race(data)

format_entity(data, root, idmap) ==
    LET folder_name == basename(root)
    IN  IF get_exc(data) # "none" THEN Raise(get_exc(data))
        ELSE IF folder_name \notin TypeFolders THEN Ok(JNone)
        ELSE IF body_of(folder_name, data, idmap).exc # "none"
             THEN body_of(folder_name, data, idmap)
        ELSE Ok(JStr(header_of(folder_name, get(data, "name", JStr(<<"U","n","n","a","m","e","d">>)))
                     \o body_of(folder_name, data, idmap).val))

--------------------------------------------------------------------------
(* Record files.  A file is [root, filename, outer]: outer is what         *)
(* json.load(f) yields, Invalid when the file is no JSON; a str that holds *)
(* JSON text is [t |-> "json_str", v |-> <what json.loads yields>].        *)

Invalid == [t |-> "invalid", v |-> 0]
JsonStr(inner) == [t |-> "json_str", v |-> inner]
File(root, filename, outer) == [root |-> root, filename |-> filename, outer |-> outer]
Record(folder, name, data) ==
    File(<<"i","n","/">> \o folder, name \o <<".","j","s","o","n">>, JsonStr(JDict(data)))

\* data_string = json.load(f)
json_load_exc(file) == IF file.outer.t = "invalid" THEN "JSONDecodeError" ELSE "none"
\* data = json.loads(data_string): TypeError unless data_string is a str
json_loads_exc(data_string) ==
    IF data_string.t # "json_str" THEN "TypeError"
    ELSE IF data_string.v.t = "invalid" THEN "JSONDecodeError"
    ELSE "none"
\* the two decodes in sequence
decode_exc(file) ==
    IF json_load_exc(file) # "none" THEN json_load_exc(file)
    ELSE json_loads_exc(file.outer)
decoded(file) == file.outer.v

\* id_map[entity_id] = ...: TypeError on an unhashable key
store_exc(entity_id) == IF entity_id.t \in {"list", "dict"} THEN "TypeError" ELSE "none"

\* if entity_id and name
registers(data) == truthy(get1(data, "id")) /\ truthy(get1(data, "name"))

\* the body of the try block of create_id_map for one file
index_exc(file) ==
    IF decode_exc(file) # "none" THEN decode_exc(file)
    ELSE IF get_exc(decoded(file)) # "none" THEN get_exc(decoded(file))
    ELSE IF registers(decoded(file)) THEN store_exc(get1(decoded(file), "id"))
    ELSE "none"

\* id_map.setdefault(entity_id, ...): an id already present is kept
id_map_store_first_wins(idmap, data, label) ==
    [n \in DOMAIN idmap \cup {get1(data, "id").v} |->
        IF n \in DOMAIN idmap THEN idmap[n]
        ELSE [name |-> get1(data, "name"), type |-> label]]

\* id_map[entity_id] = {'name': name, 'type': entity_type_display}
id_map_store(idmap, data, label) ==
    [n \in DOMAIN idmap \cup {get1(data, "id").v} |->
        IF n = get1(data, "id").v THEN [name |-> get1(data, "name"), type |-> label]
        ELSE idmap[n]]

\* except (json.JSONDecodeError, TypeError)
caught(exc) == exc \in {"JSONDecodeError", "TypeError"}

\* the files create_id_map and generate_text_files look into
is_candidate(file) ==
    /\ endswith(file.filename, <<".","j","s","o","n">>)
    /\ basename(file.root) \in TypeFolders

\* the body of the try block of generate_text_files for one file:
\* Ok(resolved content), Ok(JNone) when there is no content, or Raise(e)
process_file(file, idmap) ==
    IF decode_exc(file) # "none" THEN Raise(decode_exc(file))
    ELSE LET c == format_entity(decoded(file), file.root, idmap)
         IN  IF c.exc # "none" THEN c
             ELSE IF ~truthy(c.val) THEN Ok(JNone)
             ELSE Ok(JStr(resolve_mentions(c.val.v, idmap)))

\* output_buffers, in the order of the dict literal
buffer_order ==
    <<characters, families, locations, journals, notes, organisations, races>>

\* the separator with the banner's 40-character rule
separator_banner_rule == <<"\n","\n","\n">> \o [n \in 1..40 |-> "="] \o <<"\n","\n","\n">>

\* separator = "\n\n\n" + ("=" * 80) + "\n\n\n"
separator == <<"\n","\n","\n">> \o [n \in 1..80 |-> "="] \o <<"\n","\n","\n">>

--------------------------------------------------------------------------
(* The corpus: what the export directory may hold *)

MaxFiles == 2

Bob == [id |-> JInt(1), name |-> JStr(<<"B","o","b">>), sex |-> JStr(<<"m">>),
        character_races |-> JList(<<JDict([race_id |-> JInt(2)]),
                                    JDict([race_id |-> JInt(1)])>>),
        entry |-> JStr(<<"O","f"," ","[","r","a","c","e",":","2","|","e","l","v","e","s","]",","," ","n","o","t"," ","[","f","a","m","i","l","y",":","0","9","]",".">>)]
Rob == [id |-> JInt(1), name |-> JStr(<<"R","o","b">>),
        character_families |-> JList(<<JDict([family_id |-> JInt(3)])>>)]
Zero == [id |-> JInt(0), name |-> JStr(<<"Z","e","d">>)]
Elf == [id |-> JInt(2), name |-> JStr(<<"E","l","f">>), is_extinct |-> JBool(TRUE),
        entity |-> JDict([type |-> JStr(<<"F","e","y">>)])]
Stark == [id |-> JInt(3), name |-> JStr(<<"S","t","a","r","k">>),
          pivotMembers |-> JList(<<JDict([character_id |-> JInt(1)]),
                                   JDict([character_id |-> JInt(5)])>>)]
Clan == [id |-> JInt(1), name |-> JStr(<<"C","l","a","n">>)]
NoKey == [id |-> JInt(4), name |-> JStr(<<"L","o","s","t">>),
          pivotMembers |-> JList(<<JDict([role |-> JStr(<<"x">>)])>>)]
NotDict == [id |-> JInt(5), name |-> JStr(<<"O","d","d">>),
            pivotMembers |-> JList(<<JStr(<<"1">>)>>)]
Memo == [name |-> JStr(<<"M","e","m","o">>),
         entity |-> JDict([entry |-> JHtml(<<
             Element("p", <<TextNode(<<" ","S","e","e"," ","[","c","h","a","r","a","c","t","e","r",":","1","]"," ">>)>>),
             Element("p", <<Anchor(<<"h","t","t","p","s",":","/","/","a","p","p",".","k","a","n","k","a",".","i","o","/","x">>,
                                   <<TextNode(<<"C","l","i","c","k"," ","h","e","r","e">>)>>)>>),
             Element("ul", <<Element("li", <<TextNode(<<"a">>)>>)>>),
             Element("em", <<TextNode(<<"q","\n"," ","r">>)>>)>>)])]
Diary == [id |-> JInt(6), name |-> JStr(<<>>), date |-> JStr(<<"1","-","2">>),
          entity |-> JDict([posts |-> JList(<<
              JDict([name |-> JStr(<<"d","1">>), entry |-> JStr(<<"[","n","o","t","e",":","6","]">>)])>>)])]
Keep == [id |-> JInt(7), entity |-> JDict([entry |-> JStr(<<"x">>)])]
Guild == [id |-> JInt(8), name |-> JStr(<<"G","u","i","l","d">>), is_defunct |-> JBool(FALSE),
          pivotLocations |-> JList(<<JDict([location_id |-> JInt(2)])>>),
          members |-> JList(<<JDict([character_id |-> JInt(1)]),
                              JDict([character_id |-> JInt(9), role |-> JStr(<<"S","p","y">>)])>>)]

Corpus ==
    { Record(characters, <<"b","o","b">>, Bob),
      Record(characters, <<"r","o","b">>, Rob),
      Record(characters, <<"z","e","d">>, Zero),
      Record(races, <<"e","l","f">>, Elf),
      Record(families, <<"s","t","a","r","k">>, Stark),
      Record(families, <<"c","l","a","n">>, Clan),
      Record(families, <<"l","o","s","t">>, NoKey),
      Record(families, <<"o","d","d">>, NotDict),
      Record(notes, <<"m","e","m","o">>, Memo),
      Record(journals, <<"d","i","a","r","y">>, Diary),
      Record(locations, <<"k","e","e","p">>, Keep),
      Record(organisations, <<"g","u","i","l","d">>, Guild),
      Record(<<"m","a","p","s">>, <<"m","a","p">>, [id |-> JInt(9), name |-> JStr(<<"M","a","p">>)]),
      File(<<"i","n","/","c","h","a","r","a","c","t","e","r","s">>, <<"r","e","a","d","m","e",".","t","x","t">>, Invalid),
      File(<<"i","n","/","c","h","a","r","a","c","t","e","r","s">>, <<"b","a","d",".","j","s","o","n">>, Invalid),
      File(<<"i","n","/","n","o","t","e","s">>, <<"r","a","w",".","j","s","o","n">>, JDict([id |-> JInt(9), name |-> JStr(<<"R","a","w">>)])),
      File(<<"i","n","/","r","a","c","e","s">>, <<"c","u","t",".","j","s","o","n">>, JsonStr(Invalid)),
      File(<<"i","n","/","l","o","c","a","t","i","o","n","s">>, <<"l","i","s","t",".","j","s","o","n">>, JsonStr(JList(<<JInt(9)>>))) }

--------------------------------------------------------------------------
(* main *)

MainInit ==
    /\ ResolveIdle /\ FormatIdle
    /\ disk \in UNION {[1..n -> Corpus] : n \in 0..MaxFiles}
    /\ pc = "pass1" /\ i = 0
    /\ id_map = EmptyIdMap
    /\ returned_id_map = EmptyIdMap /\ reported_count = 0
    /\ output_buffers = <<>> /\ k = 0 /\ written = <<>>
    /\ warnings = {} /\ raised = "none" /\ formatted = {}

\* create_id_map: one iteration of "for filename in files"
IndexFile ==
    /\ pc = "pass1" /\ i < Len(disk)
    /\ LET file == disk[i + 1]
           exc == index_exc(file)
       IN  IF ~is_candidate(file)
           THEN /\ i' = i + 1
                /\ UNCHANGED <<pc, id_map, warnings, raised>>
           ELSE IF exc = "none"
           THEN /\ i' = i + 1
                /\ id_map' = IF registers(decoded(file))
                             THEN id_map_store(id_map, decoded(file),
                                               type_label(basename(file.root)))
                             ELSE id_map
                /\ UNCHANGED <<pc, warnings, raised>>
           ELSE IF caught(exc)
           THEN /\ i' = i + 1
                /\ warnings' = warnings \cup {<<1, i + 1>>}
                /\ UNCHANGED <<pc, id_map, raised>>
           ELSE /\ pc' = "aborted" /\ raised' = exc
                /\ UNCHANGED <<i, id_map, warnings>>
    /\ UNCHANGED <<disk, returned_id_map, reported_count, output_buffers, k,
                   written, formatted, resolveVars, formatVars>>

\* create_id_map with its return inside the loop: pass 1 may end before
\* the walk does
StartPass2_return_in_loop ==
    /\ pc = "pass1" /\ i <= Len(disk) /\ i >= 1
    /\ reported_count' = Cardinality(DOMAIN id_map)
    /\ returned_id_map' = id_map
    /\ output_buffers' = [f \in Range(buffer_order) |-> <<>>]
    /\ pc' = "pass2" /\ i' = 0
    /\ UNCHANGED <<disk, id_map, k, written, warnings, raised, formatted,
                   resolveVars, formatVars>>

\* create_id_map returns; main calls generate_text_files, which sets up
\* its empty buffers
StartPass2 ==
    /\ pc = "pass1" /\ i = Len(disk)
    /\ reported_count' = Cardinality(DOMAIN id_map)
    /\ returned_id_map' = id_map
    /\ output_buffers' = [f \in Range(buffer_order) |-> <<>>]
    /\ pc' = "pass2" /\ i' = 0
    /\ UNCHANGED <<disk, id_map, k, written, warnings, raised, formatted,
                   resolveVars, formatVars>>

\* generate_text_files: one iteration of "for filename in files"
ProcessFile ==
    /\ pc = "pass2" /\ i < Len(disk)
    /\ LET file == disk[i + 1]
           folder_name == basename(file.root)
           r == process_file(file, id_map)
       IN  IF ~(endswith(file.filename, <<".","j","s","o","n">>)
                /\ folder_name \in DOMAIN output_buffers)
           THEN /\ i' = i + 1
                /\ UNCHANGED <<pc, output_buffers, warnings, raised, formatted>>
           ELSE /\ formatted' = IF decode_exc(file) = "none"
                                THEN formatted \cup {i + 1} ELSE formatted
                /\ IF r.exc = "none"
                   THEN /\ i' = i + 1
                        /\ output_buffers' =
                              IF r.val.t = "NoneType" THEN output_buffers
                              ELSE [output_buffers EXCEPT
                                      ![folder_name] = Append(@, r.val.v)]
                        /\ UNCHANGED <<pc, warnings, raised>>
                   ELSE IF caught(r.exc)
                   THEN /\ i' = i + 1
                        /\ warnings' = warnings \cup {<<2, i + 1>>}
                        /\ UNCHANGED <<pc, output_buffers, raised>>
                   ELSE /\ pc' = "aborted" /\ raised' = r.exc
                        /\ UNCHANGED <<i, output_buffers, warnings>>
    /\ UNCHANGED <<disk, id_map, returned_id_map, reported_count, k, written,
                   resolveVars, formatVars>>

\* the corpus walk of pass 2 is over: on to "Writing consolidated files"
StartFlush ==
    /\ pc = "pass2" /\ i = Len(disk)
    /\ pc' = "flush" /\ k' = 0
    /\ UNCHANGED <<disk, i, id_map, returned_id_map, reported_count,
                   output_buffers, written, warnings, raised, formatted,
                   resolveVars, formatVars>>

\* one iteration of "for entity_type, content_list in output_buffers.items()"
WriteFile ==
    /\ pc = "flush" /\ k < Len(buffer_order)
    /\ LET entity_type == buffer_order[k + 1]
           content_list == output_buffers[entity_type]
           output_filename == entity_type \o <<".","t","x","t">>
       IN  written' =
              IF content_list = <<>> THEN written
              ELSE [n \in DOMAIN written \cup {output_filename} |->
                      IF n = output_filename THEN join(separator, content_list)
                      ELSE written[n]]
    /\ k' = k + 1
    /\ UNCHANGED <<disk, pc, i, id_map, returned_id_map, reported_count,
                   output_buffers, warnings, raised, formatted,
                   resolveVars, formatVars>>

\* generate_text_files returns and main prints "All done!"
Finish ==
    /\ pc = "flush" /\ k = Len(buffer_order)
    /\ pc' = "done"
    /\ UNCHANGED <<disk, i, id_map, returned_id_map, reported_count,
                   output_buffers, k, written, warnings, raised, formatted,
                   resolveVars, formatVars>>

Next == IndexFile \/ StartPass2 \/ ProcessFile \/ StartFlush \/ WriteFile \/ Finish

Spec == MainInit /\ [][Next]_vars

--------------------------------------------------------------------------
(* format_entity applied to one record: the inputs *)

MaxMembers == 2

RosterEntries ==
    { JDict([character_id |-> JInt(1)]),
      JDict([character_id |-> JInt(2)]),
      JDict([character_id |-> JInt(5)]),
      JDict([role |-> JStr(<<"x">>)]),
      JStr(<<"1">>) }

Rosters == UNION {[1..n -> RosterEntries] : n \in 0..MaxMembers}

FamilyData ==
    { JDict([id |-> JInt(3), name |-> JStr(<<"S","t","a","r","k">>), pivotMembers |-> JList(r)]) :
        r \in Rosters }

FormatData ==
    FamilyData
    \cup { JDict(d) : d \in {Bob, Rob, Elf, Clan, Memo, Diary, Keep, Guild} }
    \cup { JList(<<JInt(9)>>) }

FormatRoots == { <<"i","n","/">> \o f : f \in TypeFolders \cup { <<"m","a","p","s">> } }

FormatIdMaps ==
    { EmptyIdMap,
      (1 :> Entry(<<"B","o","b">>, <<"C","h","a","r","a","c","t","e","r">>)) @@ (2 :> Entry(<<"E","l","f">>, <<"R","a","c","e">>)) }

FormatInit ==
    /\ MainIdle /\ ResolveIdle
    /\ froot \in FormatRoots
    /\ fdata \in FormatData
    /\ fid_map \in FormatIdMaps
    /\ content = JNone
    /\ fphase = "input"

\* content = format_entity(data, root, id_map)
FormatRecord ==
    /\ fphase = "input"
    /\ content' = format_entity(fdata, froot, fid_map)
    /\ fphase' = "done"
    /\ UNCHANGED <<froot, fdata, fid_map, mainVars, resolveVars>>

FormatNext == FormatRecord

SpecFormat == FormatInit /\ [][FormatNext]_vars

--------------------------------------------------------------------------
(* Claims about main *)

after_pass1 == pc \in {"pass2", "flush", "done"}

\* ---- C1 ----
\* C1: every write to the Identity Index happens before the first
\* format_entity / resolve_mentions step; pass 2 starts only when pass 1 has
\* visited every file of the corpus; and at every step of pass 2 the index
\* read is the one create_id_map returned.
C1_TwoPassOrder ==
    [][ /\ (formatted' # {} => id_map' = id_map)
        /\ ((pc = "pass1" /\ pc' = "pass2") => i = Len(disk))
        /\ (pc' \in {"pass2", "flush", "done"} => id_map' = returned_id_map') ]_vars

C1_Witness ==
    /\ pc = "pass2" /\ i = Len(disk) /\ Len(disk) = MaxFiles
    /\ Cardinality(formatted) = MaxFiles
    /\ Cardinality(DOMAIN id_map) >= 2

\* ---- C4 ----
\* C4: a malformed or unexpectedly shaped record file is skipped with a
\* warning and never ends the pass it is met in: main is not aborted, and
\* every file whose try block failed has its warning.
C4_FailuresContained ==
    /\ pc # "aborted"
    /\ raised = "none"
    /\ \A n \in 1..Len(disk) :
          (after_pass1 /\ is_candidate(disk[n]) /\ index_exc(disk[n]) # "none")
              => <<1, n>> \in warnings

\* ---- C5 ----
\* C5: when the flush is over, each of the seven types with a non-empty
\* buffer has exactly one file <type>.txt, holding the buffered records in
\* buffer order joined by "\n\n\n" + 80 "=" + "\n\n\n"; a type with an
\* empty buffer has no file; nothing else is written, and an empty corpus
\* leaves no file at all.
C5_rule == <<"\n", "\n", "\n">> \o [n \in 1..80 |-> "="] \o <<"\n", "\n", "\n">>
C5_file(records) ==
    concat([n \in DOMAIN records |->
              IF n = 1 THEN records[n] ELSE C5_rule \o records[n]])
C5_name(folder) == folder \o <<".", "t", "x", "t">>
C5_types == {characters, families, locations, journals, notes, organisations, races}

C5_FlushWritesNonEmpty ==
    pc = "done" =>
        /\ \A f \in C5_types :
              IF output_buffers[f] # <<>>
              THEN /\ C5_name(f) \in DOMAIN written
                   /\ written[C5_name(f)] = C5_file(output_buffers[f])
              ELSE C5_name(f) \notin DOMAIN written
        /\ DOMAIN written \subseteq {C5_name(f) : f \in C5_types}
        /\ (disk = <<>> => DOMAIN written = {})
        /\ raised = "none"

C5_Witness ==
    /\ pc = "done"
    /\ \E f \in C5_types : Len(output_buffers[f]) >= 2
    /\ \E f \in C5_types : output_buffers[f] = <<>>

\* ---- C6 ----
\* C6: after pass 1, a decoded record of a recognized folder is in the
\* Identity Index exactly when it carries an id (any non-negative integer)
\* and a name, and a record that lacks one of them causes no warning.
C6_has_id(data) == "id" \in DOMAIN data.v /\ data.v["id"].t = "int" /\ data.v["id"].v >= 0
C6_has_name(data) ==
    "name" \in DOMAIN data.v /\ data.v["name"].t = "str" /\ data.v["name"].v # <<>>

C6_carries_both(file) ==
    /\ is_candidate(file) /\ decode_exc(file) = "none" /\ decoded(file).t = "dict"
    /\ C6_has_id(decoded(file)) /\ C6_has_name(decoded(file))
C6_lacks_one(file) ==
    /\ is_candidate(file) /\ decode_exc(file) = "none" /\ decoded(file).t = "dict"
    /\ ~(C6_has_id(decoded(file)) /\ C6_has_name(decoded(file)))

C6_RegisteredIffIdAndName ==
    after_pass1 =>
        /\ \A n \in 1..Len(disk) :
              C6_carries_both(disk[n]) => decoded(disk[n]).v["id"].v \in DOMAIN id_map
        /\ \A n \in 1..Len(disk) :
              C6_lacks_one(disk[n]) => <<1, n>> \notin warnings
        /\ \A id \in DOMAIN id_map :
              \E n \in 1..Len(disk) :
                  C6_carries_both(disk[n]) /\ decoded(disk[n]).v["id"].v = id

\* ---- C9 ----
\* C9: after pass 1 the Identity Index holds, for every id some registrable
\* record carries, the name and type label of the last such record in
\* traversal order, and the reported count is the number of distinct
\* registered ids.
C9_registrable(file) ==
    /\ is_candidate(file) /\ index_exc(file) = "none"
    /\ truthy(get1(decoded(file), "id")) /\ truthy(get1(decoded(file), "name"))
C9_id(file) == decoded(file).v["id"].v
C9_ids == {C9_id(disk[n]) : n \in {m \in 1..Len(disk) : C9_registrable(disk[m])}}
C9_last(id) ==
    CHOOSE n \in 1..Len(disk) :
        /\ C9_registrable(disk[n]) /\ C9_id(disk[n]) = id
        /\ \A m \in (n + 1)..Len(disk) :
              ~(C9_registrable(disk[m]) /\ C9_id(disk[m]) = id)
C9_label(folder) ==
    CASE folder = characters -> <<"C","h","a","r","a","c","t","e","r">>
      [] folder = families -> <<"F","a","m","i","l","y">>
      [] folder = locations -> <<"L","o","c","a","t","i","o","n">>
      [] folder = journals -> <<"J","o","u","r","n","a","l">>
      [] folder = notes -> <<"N","o","t","e">>
      [] folder = organisations -> <<"O","r","g","a","n","i","s","a","t","i","o","n">>
      [] folder = races -> <<"R","a","c","e">>

C9_LastWriteWins ==
    after_pass1 =>
        /\ DOMAIN id_map = C9_ids
        /\ \A id \in C9_ids :
              /\ id_map[id].name = decoded(disk[C9_last(id)]).v["name"]
              /\ id_map[id].type = C9_label(basename(disk[C9_last(id)].root))
        /\ reported_count = Cardinality(C9_ids)

C9_Witness ==
    /\ pc = "pass2"
    /\ \E m, n \in 1..Len(disk) :
          /\ m < n /\ C9_registrable(disk[m]) /\ C9_registrable(disk[n])
          /\ C9_id(disk[m]) = C9_id(disk[n])
          /\ decoded(disk[m]).v["name"] # decoded(disk[n]).v["name"]
          /\ basename(disk[m].root) # basename(disk[n].root)

\* ---- C10 ----
\* C10: when main is over, the buffer of each type holds, in traversal
\* order and once each, the resolved content of every record of that
\* type's folder that decodes and formats, and nothing else.
C10_well_formed(file) ==
    is_candidate(file) /\ process_file(file, EmptyIdMap).exc = "none"
RECURSIVE C10_expected(_, _)
C10_expected(folder, n) ==
    IF n = 0 THEN <<>>
    ELSE C10_expected(folder, n - 1)
         \o (IF C10_well_formed(disk[n]) /\ basename(disk[n].root) = folder
             THEN <<process_file(disk[n], id_map).val.v>> ELSE <<>>)
C10_buffer(folder) ==
    IF folder \in DOMAIN output_buffers THEN output_buffers[folder] ELSE <<>>

C10_EveryRecordAppendedOnce ==
    pc \in {"done", "aborted"} =>
        \A f \in C5_types : C10_buffer(f) = C10_expected(f, Len(disk))

--------------------------------------------------------------------------
(* Claims about format_entity and format_family *)

\* ---- C7 ----
\* C7: the banner of a record of a recognized folder is 40 "=", newline,
\* space, the upper-cased singular type name, ": ", the name, newline,
\* 40 "=", newline, blank line.
C7_singular(folder) ==
    CASE folder = characters -> <<"C","H","A","R","A","C","T","E","R">>
      [] folder = families -> <<"F","A","M","I","L","Y">>
      [] folder = locations -> <<"L","O","C","A","T","I","O","N">>
      [] folder = journals -> <<"J","O","U","R","N","A","L">>
      [] folder = notes -> <<"N","O","T","E">>
      [] folder = organisations -> <<"O","R","G","A","N","I","S","A","T","I","O","N">>
      [] folder = races -> <<"R","A","C","E">>
C7_folder == SubSeq(froot, 4, Len(froot))
C7_banner ==
    [n \in 1..40 |-> "="] \o <<"\n", " ">> \o C7_singular(C7_folder) \o <<":", " ">>
    \o (IF "name" \in DOMAIN fdata.v THEN fdata.v["name"].v
        ELSE <<"U","n","n","a","m","e","d">>)
    \o <<"\n">> \o [n \in 1..40 |-> "="] \o <<"\n", "\n">>

C7_BannerFormat ==
    (fphase = "done" /\ C7_folder \in C5_types /\ content.exc = "none")
        => SubSeq(content.val.v, 1, Len(C7_banner)) = C7_banner

\* ---- C8 ----
\* C8: format_family renders one roster line per entry of pivotMembers, in
\* source order: "- <name> (Character)" when the member's character id is
\* in the Identity Index, "- [Character Not Found: <id>]" when it is not.
C8_lines == split_lines(content.val.v)
C8_is_roster_line(l) == Len(l) >= 2 /\ l[1] = "-" /\ l[2] = " "
C8_roster ==
    LET at == {n \in DOMAIN C8_lines : C8_is_roster_line(C8_lines[n])}
    IN  [n \in 1..Cardinality(at) |->
            C8_lines[CHOOSE m \in at : Cardinality({x \in at : x <= m}) = n]]
C8_members == fdata.v["pivotMembers"].v
C8_line(member) ==
    LET id == member.v["character_id"].v
    IN  IF id \in DOMAIN fid_map
        THEN <<"-", " ">> \o fid_map[id].name.v \o <<" ","(","C","h","a","r","a","c","t","e","r",")">>
        ELSE <<"-", " ">> \o <<"[","C","h","a","r","a","c","t","e","r"," ","N","o","t"," ",
                               "F","o","u","n","d",":"," ">> \o nat_str(id) \o <<"]">>
C8_is_family ==
    /\ fphase = "done" /\ C7_folder = families
    /\ fdata.t = "dict" /\ "pivotMembers" \in DOMAIN fdata.v
    /\ content.exc = "none"

C8_RosterLines ==
    C8_is_family => C8_roster = [n \in DOMAIN C8_members |-> C8_line(C8_members[n])]

C8_Witness ==
    /\ C8_is_family /\ Len(C8_members) = MaxMembers
    /\ \E n \in DOMAIN C8_members : C8_members[n].v["character_id"].v \in DOMAIN fid_map
    /\ \E n \in DOMAIN C8_members : C8_members[n].v["character_id"].v \notin DOMAIN fid_map

--------------------------------------------------------------------------
(* Claims about resolve_mentions *)

\* ---- C2 ----
\* C2: resolve_mentions replaces each mention token by "N (T)" when its id
\* is a key of the index (name N, label T) and by "[Type Not Found: id]",
\* Type being the token's own tag capitalized, when it is not; the text
\* outside the tokens is unchanged.
C2_expected_piece(p, idmap) ==
    IF p.kind = "literal" THEN p.rest
    ELSE LET n == int_of(p.digits)
         IN  IF n \in DOMAIN idmap
             THEN idmap[n].name.v \o <<" ","(">> \o idmap[n].type \o <<")">>
             ELSE <<"[">> \o <<upper_char(p.type[1])>> \o lower(Tail(p.type))
                  \o <<" ","N","o","t"," ","F","o","u","n","d",":"," ">> \o int_str(n) \o <<"]">>

C2_TokensResolved ==
    rphase \in {"once", "twice"} =>
        out1 = concat([n \in DOMAIN pieces |-> C2_expected_piece(pieces[n], index)])

C2_Witness ==
    /\ rphase = "once"
    /\ \E m, n \in DOMAIN pieces :
          /\ pieces[m].kind = "token" /\ int_of(pieces[m].digits) \in DOMAIN index
          /\ pieces[n].kind = "token" /\ int_of(pieces[n].digits) \notin DOMAIN index
    /\ \E n \in DOMAIN pieces : pieces[n].kind = "literal"

\* ---- C3 ----
\* C3 as stated: for every text and every index, names with bracketed text
\* included, resolving the resolver's output again changes nothing.
C3_Idempotent == rphase = "twice" => out2 = out1

C3_names_clean(idmap) ==
    \A n \in DOMAIN idmap :
        \A c \in Range(idmap[n].name.v) : c \notin {"]", "|"}

\* C3 amended: resolving the resolver's output again changes nothing when
\* no name of the index contains "]" or "|".
C3_IdempotentCleanNames ==
    (rphase = "twice" /\ C3_names_clean(index)) => out2 = out1

C3_Witness ==
    /\ rphase = "twice" /\ C3_names_clean(index) /\ index # EmptyIdMap
    /\ out1 # text
    /\ \E n \in DOMAIN pieces :
          /\ pieces[n].kind = "token" /\ int_of(pieces[n].digits) \in DOMAIN index
          /\ "[" \in Range(index[int_of(pieces[n].digits)].name.v)
          /\ n > 1 /\ pieces[n - 1] = Literal(<<"[","a",":">>)

====
